---- MODULE Spec2Model ----
(***************************************************************************)
(* Model of Protocol.descend (src/protocol.py): the recursive walk over a  *)
(* chain of protocol analyzers that merges the layers' summaries and       *)
(* collects the layers' details.                                           *)
(*                                                                         *)
(* Python dicts are insertion-ordered: a dict is a sequence of entries     *)
(* [k, v] with pairwise distinct keys.  Dict objects live in a heap and    *)
(* are referred to by their index, so aliasing and in-place writes are     *)
(* visible.  Strings that the code edits (class names) are sequences of    *)
(* characters.                                                             *)
(***************************************************************************)
EXTENDS Integers, Sequences, FiniteSets, TLC

VARIABLES chains, back, seed, heap, stack, exc, calls, results

vars == <<chains, back, seed, heap, stack, exc, calls, results>>

\* ------------------------------------------------------------------ bounds
MaxLayers == 3

\* The interpreter's recursion limit, kept above every acyclic chain.
RecursionLimit == MaxLayers + 2

\* ------------------------------------------------------------ Python values
None == "<None>"

NoRef == 0

\* bool(d) of a dict: an empty dict is falsy.
Truthy(d) == Len(d) > 0

\* ------------------------------------------------------------------- dicts
Entry(k, v) == [k |-> k, v |-> v]

EmptyDict == << >>

DictKeys(d) == {d[i].k : i \in DOMAIN d}

Has(d, k) == k \in DictKeys(d)

Get(d, k) == d[CHOOSE i \in DOMAIN d : d[i].k = k].v

\* d[k] = v: an existing key keeps its position, a new key goes last.
Put(d, k, v) ==
    IF Has(d, k)
    THEN [i \in DOMAIN d |-> IF d[i].k = k THEN Entry(k, v) ELSE d[i]]
    ELSE Append(d, Entry(k, v))

\* d.update(e), and {**d, **e} on a copy of d.
RECURSIVE Update(_, _)
Update(d, e) ==
    IF e = << >> THEN d
    ELSE Update(Put(d, Head(e).k, Head(e).v), Tail(e))

\* {k: v for k, v in d.items() if v is not None}
NonNone(d) == SelectSeq(d, LAMBDA e : e.v # None)

\* Variant: the inherited value wins on a key collision.
MergeSummaryOuterWins(inherited, current) == Update(NonNone(current), inherited)

\* Variant: None values are merged like any other value.
MergeSummaryNoFilter(inherited, current) == Update(inherited, current)

\* {**inherited_summary, **{k: v for k, v in current_summary.items() if v is not None}}
MergeSummary(inherited, current) == Update(inherited, NonNone(current))

\* ----------------------------------------------------------- protocol name
\* str.replace(old, new) for a non-empty old: leftmost, non-overlapping.
RECURSIVE Replace(_, _, _)
Replace(s, old, new) ==
    IF Len(s) < Len(old) THEN s
    ELSE IF SubSeq(s, 1, Len(old)) = old
         THEN new \o Replace(SubSeq(s, Len(old) + 1, Len(s)), old, new)
         ELSE <<Head(s)>> \o Replace(Tail(s), old, new)

ProtocolWord == <<"P", "r", "o", "t", "o", "c", "o", "l">>

\* self.__class__.__name__.replace("Protocol", "")
ProtocolName(cls) == Replace(cls, ProtocolWord, << >>)

\* Class names of the analyzer variants.
IPProtocol == <<"I", "P">> \o ProtocolWord

TCPProtocol == <<"T", "C", "P">> \o ProtocolWord

IPClass == <<"I", "P">>

Classes == {IPProtocol, TCPProtocol, IPClass}

\* ---------------------------------------------------- descend, step by step
\* Variant: the layer is recorded whether or not its details are empty.
RecordDetailsAlways(d, cls, cur, content) == Put(d, ProtocolName(cls), cur)

\* Variant: the key is taken from the packet's fields, not from the class.
RecordDetailsByContent(d, cls, cur, content) ==
    IF Truthy(content) THEN Put(d, content[1].v, cur) ELSE d

\* if current_details: details[protocol_name] = current_details
\* (d: the details map, cur: the reference parse_layer_details() returned,
\*  content: the dict behind that reference)
RecordDetails(d, cls, cur, content) ==
    IF Truthy(content) THEN Put(d, ProtocolName(cls), cur) ELSE d

\* Variant: result["details"].update(details), the outer entry wins.
MergeDetailsOuterWins(details, inner) == Update(inner, details)

\* Variant: the inner entries first, then the outer entries they lack.
MergeDetailsInnerFirst(details, inner) ==
    inner \o SelectSeq(details, LAMBDA e : ~Has(inner, e.k))

\* details.update(result["details"])
MergeDetails(details, inner) == Update(details, inner)

\* Variant: inherited_summary.update(...), the merge written into the
\* dict the caller passed.
SummaryHeapInPlace(h, inh, cur) ==
    Append([h EXCEPT ![inh] = MergeSummary(h[inh], h[cur])],
           MergeSummary(h[inh], h[cur]))

\* Variant: the fields are popped out of the dict get_summary() returned.
SummaryHeapDrain(h, inh, cur) ==
    Append([h EXCEPT ![cur] = << >>], MergeSummary(h[inh], h[cur]))

\* combined_summary = {**inherited_summary, **{...}}: a new dict object; the
\* heap after the statement (the new object is the last one).
SummaryHeap(h, inh, cur) == Append(h, MergeSummary(h[inh], h[cur]))

\* {"summary": s, "details": d}
ResultDict(s, d) == <<Entry("summary", s), Entry("details", d)>>

NoExc == [depth |-> 0, layer |-> 0, m |-> "none"]

Methods == {"parse_layer_details", "get_summary", "next_protocol"}

Frame(layer, inherited) ==
    [self |-> layer, inh |-> inherited, details |-> NoRef, cur |-> NoRef,
     comb |-> NoRef, result |-> NoRef, pc |-> "enter"]

Run == Len(results) + 1

Depth == Len(stack)

Top == stack[Depth]

Chain == chains[Run]

Layer == Chain[Top.self]

\* next_protocol() of the layer at position i: the next analyzer of the
\* chain; the last one returns None, or in a cyclic chain the layer `back`.
NextOf(i) == IF i < Len(Chain) THEN i + 1 ELSE back

Called(m) == Append(calls, [run |-> Run, depth |-> Depth, layer |-> Top.self, m |-> m])

Running == Depth > 0 /\ exc = NoExc

\* What the caller of the top-level descend holds when it returns: the
\* result's two maps, the details map with the field dicts it refers to.
Snapshot(h, res) ==
    LET d == h[Get(h[res], "details")]
    IN  [summary |-> h[Get(h[res], "summary")],
         details |-> [i \in DOMAIN d |-> Entry(d[i].k, h[d[i].v])]]

NoSnapshot == [summary |-> << >>, details |-> << >>]

\* return res: to the calling frame, or to the caller of the top-level call.
Return(h, res) ==
    IF Depth = 1
    THEN /\ stack' = << >>
         /\ results' = Append(results, [kind |-> "returned", res |-> res,
                                         exc |-> NoExc, out |-> Snapshot(h, res)])
    ELSE /\ stack' = [SubSeq(stack, 1, Depth - 1) EXCEPT
                         ![Depth - 1].result = res, ![Depth - 1].pc = "unwind"]
         /\ UNCHANGED results

\* The caller invokes descend on the outermost analyzer of the next chain.
Start ==
    /\ Depth = 0
    /\ exc = NoExc
    /\ Len(results) < Len(chains)
    /\ stack' = <<Frame(1, seed)>>
    /\ calls' = Append(calls, [run |-> Run, depth |-> 1, layer |-> 1, m |-> "descend"])
    /\ UNCHANGED <<chains, back, seed, heap, exc, results>>

\* details = {}; if inherited_summary is None: inherited_summary = {}
Enter ==
    /\ Running
    /\ Top.pc = "enter"
    /\ IF Top.inh = NoRef
       THEN /\ heap' = heap \o <<EmptyDict, EmptyDict>>
            /\ stack' = [stack EXCEPT ![Depth].details = Len(heap) + 1,
                                      ![Depth].inh = Len(heap) + 2,
                                      ![Depth].pc = "parse"]
       ELSE /\ heap' = Append(heap, EmptyDict)
            /\ stack' = [stack EXCEPT ![Depth].details = Len(heap) + 1,
                                      ![Depth].pc = "parse"]
    /\ UNCHANGED <<chains, back, seed, exc, calls, results>>

\* current_details = self.parse_layer_details(); if current_details: ...
Parse ==
    /\ Running
    /\ Top.pc = "parse"
    /\ Layer.fail # "parse_layer_details"
    /\ calls' = Called("parse_layer_details")
    /\ heap' = [heap EXCEPT ![Top.details] =
                   RecordDetails(@, Layer.cls, Layer.det, heap[Layer.det])]
    /\ stack' = [stack EXCEPT ![Depth].cur = Layer.det, ![Depth].pc = "summary"]
    /\ UNCHANGED <<chains, back, seed, exc, results>>

\* current_summary = self.get_summary(); combined_summary = {...}
Summary ==
    /\ Running
    /\ Top.pc = "summary"
    /\ Layer.fail # "get_summary"
    /\ calls' = Called("get_summary")
    /\ heap' = SummaryHeap(heap, Top.inh, Layer.sum)
    /\ stack' = [stack EXCEPT ![Depth].comb = Len(heap') , ![Depth].pc = "next"]
    /\ UNCHANGED <<chains, back, seed, exc, results>>

\* result = next_proto.descend(inherited_summary=combined_summary)
DoCall ==
    /\ stack' = Append([stack EXCEPT ![Depth].pc = "wait"],
                       Frame(NextOf(Top.self), Top.comb))
    /\ calls' = Called("next_protocol") \o
                   <<[run |-> Run, depth |-> Depth + 1,
                      layer |-> NextOf(Top.self), m |-> "descend"]>>
    /\ UNCHANGED <<chains, back, seed, heap, exc, results>>

\* return {"summary": combined_summary, "details": details}
DoReturn ==
    /\ calls' = Called("next_protocol")
    /\ heap' = Append(heap, ResultDict(Top.comb, Top.details))
    /\ Return(heap', Len(heap'))
    /\ UNCHANGED <<chains, back, seed, exc>>

\* Variant: a depth bound of the engine's own, the deeper layers are cut off.
CallNextBounded ==
    /\ Running
    /\ Top.pc = "next"
    /\ Layer.fail # "next_protocol"
    /\ NextOf(Top.self) # 0
    /\ IF Depth < MaxLayers THEN DoCall ELSE DoReturn

\* next_proto = self.next_protocol(); if next_proto: recurse
CallNext ==
    /\ Running
    /\ Top.pc = "next"
    /\ Layer.fail # "next_protocol"
    /\ NextOf(Top.self) # 0
    /\ Depth < RecursionLimit
    /\ DoCall

\* next_proto = self.next_protocol(); no next layer: the base case
ReturnBase ==
    /\ Running
    /\ Top.pc = "next"
    /\ Layer.fail # "next_protocol"
    /\ NextOf(Top.self) = 0
    /\ DoReturn

\* details.update(result["details"]); return {"summary": result["summary"], ...}
Unwind ==
    /\ Running
    /\ Top.pc = "unwind"
    /\ LET inner == heap[Top.result]
           h1 == [heap EXCEPT ![Top.details] =
                     MergeDetails(@, heap[Get(inner, "details")])]
       IN  /\ heap' = Append(h1, ResultDict(Get(inner, "summary"), Top.details))
           /\ Return(heap', Len(heap'))
    /\ UNCHANGED <<chains, back, seed, exc, calls>>

\* An analyzer method raises: descend has no handler, the exception leaves it.
Raise(m) ==
    /\ calls' = Called(m)
    /\ exc' = [depth |-> Depth, layer |-> Top.self, m |-> m]
    /\ UNCHANGED <<chains, back, seed, heap, stack, results>>

\* Variant: the failure is caught and the layer goes on without details.
ParseFailsSwallowed ==
    /\ Running
    /\ Top.pc = "parse"
    /\ Layer.fail = "parse_layer_details"
    /\ calls' = Called("parse_layer_details")
    /\ stack' = [stack EXCEPT ![Depth].pc = "summary"]
    /\ UNCHANGED <<chains, back, seed, heap, exc, results>>

ParseFails ==
    /\ Running
    /\ Top.pc = "parse"
    /\ Layer.fail = "parse_layer_details"
    /\ Raise("parse_layer_details")

SummaryFails ==
    /\ Running
    /\ Top.pc = "summary"
    /\ Layer.fail = "get_summary"
    /\ Raise("get_summary")

NextFails ==
    /\ Running
    /\ Top.pc = "next"
    /\ Layer.fail = "next_protocol"
    /\ Raise("next_protocol")

\* The call at line 91 exceeds the interpreter's recursion limit.
Overflow ==
    /\ Running
    /\ Top.pc = "next"
    /\ Layer.fail # "next_protocol"
    /\ NextOf(Top.self) # 0
    /\ Depth >= RecursionLimit
    /\ calls' = Called("next_protocol")
    /\ exc' = [depth |-> Depth + 1, layer |-> NextOf(Top.self), m |-> "RecursionError"]
    /\ UNCHANGED <<chains, back, seed, heap, stack, results>>

\* The exception leaves one frame of descend; out of the outermost frame it
\* reaches the caller of the top-level descend.
Propagate ==
    /\ Depth > 0
    /\ exc # NoExc
    /\ stack' = SubSeq(stack, 1, Depth - 1)
    /\ IF Depth = 1
       THEN /\ results' = Append(results, [kind |-> "raised", res |-> NoRef,
                                            exc |-> exc, out |-> NoSnapshot])
            /\ exc' = NoExc
       ELSE UNCHANGED <<results, exc>>
    /\ UNCHANGED <<chains, back, seed, heap, calls>>

\* ------------------------------------------------- packets and analyzer chains
\* get_summary() results of a layer: fields absent, None, falsy or set.
SummaryChoices ==
    { << >>,
      <<Entry("protocol", None)>>,
      <<Entry("protocol", "TCP"), Entry("src", None)>>,
      <<Entry("protocol", ""), Entry("src", "10.0.0.1")>>,
      <<Entry("src", "10.0.0.2"), Entry("protocol", None)>> }

\* parse_layer_details() results of a layer, for a first and a second packet.
DetailChoices == { << >>, <<Entry("len", <<"2", "0">>)>> }

DetailChoices2 == { << >>, <<Entry("len", <<"6", "4">>)>> }

\* inherited_summary of the top-level call: omitted, or supplied by the caller.
NoSeed == [given |-> FALSE, d |-> << >>]

SeedChoices ==
    { NoSeed,
      [given |-> TRUE, d |-> << >>],
      [given |-> TRUE, d |-> <<Entry("protocol", "ARP"), Entry("iface", "eth0")>>],
      [given |-> TRUE, d |-> <<Entry("iface", None)>>] }

NoFail == "none"

\* The analyzers of one chain; the dicts their methods return are the heap
\* objects base + 2i - 1 (summary) and base + 2i (details).
MkChain(clss, fails, base) ==
    [i \in 1..Len(clss) |->
        [cls |-> clss[i], sum |-> base + 2 * i - 1, det |-> base + 2 * i,
         fail |-> fails[i]]]

MkHeap(sums, dets) ==
    [j \in 1..(2 * Len(sums)) |->
        IF j % 2 = 1 THEN sums[(j + 1) \div 2] ELSE dets[j \div 2]]

\* The state before the first top-level call.  mode "once": one chain;
\* "twice": descend is invoked twice over the same packet; "pair": two
\* packets with the same stack of analyzer variants.
Setup(clss, sums, dets, dets2, fails, bk, sd, mode) ==
    LET n  == Len(clss)
        h0 == MkHeap(sums, dets) \o
              (IF mode = "pair" THEN MkHeap(sums, dets2) ELSE << >>)
        c1 == MkChain(clss, fails, 0)
    IN  /\ heap = (IF sd.given THEN Append(h0, sd.d) ELSE h0)
        /\ seed = (IF sd.given THEN Len(h0) + 1 ELSE NoRef)
        /\ chains = (IF mode = "once" THEN <<c1>>
                     ELSE IF mode = "twice" THEN <<c1, c1>>
                     ELSE <<c1, MkChain(clss, fails, 2 * n)>>)
        /\ back = bk
        /\ stack = << >>
        /\ exc = NoExc
        /\ calls = << >>
        /\ results = << >>

Lengths == 1..MaxLayers

\* The class of the analyzer at position i of an IP/TCP stack.
StackClass(i) == IF i % 2 = 1 THEN IPProtocol ELSE TCPProtocol

\* One packet, every mix of summaries and seeds.
Init ==
    \E n \in Lengths :
      \E sums \in [1..n -> SummaryChoices], dets \in [1..n -> DetailChoices],
         sd \in SeedChoices :
        Setup([i \in 1..n |-> StackClass(i)], sums, dets, dets,
              [i \in 1..n |-> NoFail], 0, sd, "once")

Next ==
    \/ Start
    \/ Enter
    \/ Parse
    \/ Summary
    \/ CallNext
    \/ ReturnBase
    \/ Unwind

Spec == Init /\ [][Next]_vars

\* One packet, every mix of analyzer classes and empty or non-empty details.
FixedSummary == <<Entry("protocol", "TCP"), Entry("src", None)>>

InitDetails ==
    \E n \in Lengths :
      \E clss \in [1..n -> Classes], dets \in [1..n -> DetailChoices] :
        Setup(clss, [i \in 1..n |-> FixedSummary], dets, dets,
              [i \in 1..n |-> NoFail], 0, NoSeed, "once")

SpecDetails == InitDetails /\ [][Next]_vars

\* Two packets with the same stack of analyzer variants and their own fields.
InitPair ==
    \E n \in Lengths :
      \E clss \in [1..n -> Classes], dets \in [1..n -> DetailChoices],
         dets2 \in [1..n -> DetailChoices2] :
        Setup(clss, [i \in 1..n |-> FixedSummary], dets, dets2,
              [i \in 1..n |-> NoFail], 0, NoSeed, "pair")

SpecPair == InitPair /\ [][Next]_vars

\* descend invoked twice over the same packet, with the same seed object.
InitTwice ==
    \E n \in Lengths :
      \E sums \in [1..n -> SummaryChoices], dets \in [1..n -> DetailChoices],
         sd \in SeedChoices :
        Setup([i \in 1..n |-> StackClass(i)], sums, dets, dets,
              [i \in 1..n |-> NoFail], 0, sd, "twice")

SpecTwice == InitTwice /\ [][Next]_vars

\* One packet whose analyzers may fail in any of their methods.
FailSummaries == { <<Entry("protocol", None)>>, FixedSummary }

InitFail ==
    \E n \in Lengths :
      \E sums \in [1..n -> FailSummaries], dets \in [1..n -> DetailChoices],
         fails \in [1..n -> {NoFail} \cup Methods] :
        Setup([i \in 1..n |-> StackClass(i)], sums, dets, dets,
              fails, 0, NoSeed, "once")

NextFail ==
    \/ Next
    \/ ParseFails
    \/ SummaryFails
    \/ NextFails
    \/ Propagate

SpecFail == InitFail /\ [][NextFail]_vars

\* One packet whose last analyzer may name an earlier layer as its next one.
\* descend runs synchronously to its end, so a step that can be taken is taken.
InitCycle ==
    \E n \in Lengths :
      \E sums \in [1..n -> FailSummaries], dets \in [1..n -> DetailChoices],
         bk \in 0..n :
        Setup([i \in 1..n |-> StackClass(i)], sums, dets, dets,
              [i \in 1..n |-> NoFail], bk, NoSeed, "once")

NextCycle ==
    \/ Next
    \/ Overflow
    \/ Propagate

SpecCycle == InitCycle /\ [][NextCycle]_vars /\ WF_vars(NextCycle)

\* =========================================================== properties
Returned(r) == Len(results) >= r /\ results[r].kind = "returned"

Out(r) == results[r].out

NumLayers == Len(chains[1])

SumOf(r, i) == heap[chains[r][i].sum]

DetOf(r, i) == heap[chains[r][i].det]

NameOf(i) == ProtocolName(chains[1][i].cls)

NonEmptyLayers(r) == {i \in 1..NumLayers : Truthy(DetOf(r, i))}

NamesOf(S) == {NameOf(i) : i \in S}

Max(S) == CHOOSE x \in S : \A y \in S : y <= x

Min(S) == CHOOSE x \in S : \A y \in S : x <= y

KeySeq(d) == [i \in DOMAIN d |-> d[i].k]

CountKey(d, k) == Cardinality({i \in DOMAIN d : d[i].k = k})

\* The details map object of the result of run r.
DetailsMap(r) == heap[Get(heap[results[r].res], "details")]

SummaryKeys == {"protocol", "src", "iface"}

EmptySeed == seed = NoRef \/ heap[seed] = << >>

NoNone(d) == \A i \in DOMAIN d : d[i].v # None

SeedNoNone == seed = NoRef \/ NoNone(heap[seed])

\* The layers whose get_summary() gives k a value other than None.
Setters(k) ==
    {i \in 1..NumLayers : Has(SumOf(1, i), k) /\ Get(SumOf(1, i), k) # None}

\* C1: with an empty seed, every key of the returned summary has the value
\* of the deepest layer that gives it a value other than None, and a key no
\* layer gives such a value is absent.
C1_InnermostWins ==
    (Returned(1) /\ EmptySeed) =>
        /\ DictKeys(Out(1).summary) \subseteq SummaryKeys
        /\ \A k \in SummaryKeys :
             IF Setters(k) = {}
             THEN ~Has(Out(1).summary, k)
             ELSE /\ Has(Out(1).summary, k)
                  /\ Get(Out(1).summary, k) = Get(SumOf(1, Max(Setters(k))), k)

\* An outer "TCP" overridden by an inner "" and kept over the innermost None.
C1_Witness ==
    /\ Returned(1)
    /\ EmptySeed
    /\ NumLayers = 3
    /\ SumOf(1, 1) = <<Entry("protocol", "TCP"), Entry("src", None)>>
    /\ SumOf(1, 2) = <<Entry("protocol", ""), Entry("src", "10.0.0.1")>>
    /\ SumOf(1, 3) = <<Entry("protocol", None)>>
    /\ Out(1).summary = <<Entry("protocol", ""), Entry("src", "10.0.0.1")>>

\* C10: with no seed or a seed without None, the inherited_summary and the
\* combined_summary of every recursion level and every returned summary
\* hold no None.
C10_NoNone ==
    SeedNoNone =>
        /\ \A j \in DOMAIN stack :
             /\ stack[j].inh # NoRef => NoNone(heap[stack[j].inh])
             /\ stack[j].comb # NoRef => NoNone(heap[stack[j].comb])
        /\ \A r \in DOMAIN results : NoNone(results[r].out.summary)

C10_Witness ==
    /\ Returned(1)
    /\ seed # NoRef
    /\ Truthy(heap[seed])
    /\ SeedNoNone
    /\ NumLayers >= 2
    /\ \A i \in 1..NumLayers : ~NoNone(SumOf(1, i))
    /\ Truthy(Out(1).summary)

\* The dicts descend did not create: those the analyzers return and the seed.
ExternalIds ==
    UNION {{chains[r][i].sum, chains[r][i].det} :
              r \in DOMAIN chains, i \in 1..NumLayers}
    \cup ({seed} \ {NoRef})

\* The only dict the running frame may write: the details map it created,
\* which is none of the dicts it was given or got back.
Owned(id) ==
    /\ Depth > 0
    /\ id = Top.details
    /\ id \notin ExternalIds
    /\ id # Top.inh
    /\ Top.result # NoRef =>
          id \notin {Top.result, Get(heap[Top.result], "summary"),
                     Get(heap[Top.result], "details")}
    /\ \A j \in 1..(Depth - 1) :
          id \notin {stack[j].inh, stack[j].details, stack[j].comb}

\* C7: every step of descend leaves the packet and every existing dict as
\* it was, except the details map created by the frame that takes the step.
C7_FrameEffect ==
    [][ /\ chains' = chains
        /\ Len(heap') >= Len(heap)
        /\ \A id \in DOMAIN heap : heap'[id] # heap[id] => Owned(id) ]_vars

C7_Witness ==
    /\ Returned(1)
    /\ seed # NoRef
    /\ heap[seed] = <<Entry("protocol", "ARP"), Entry("iface", "eth0")>>
    /\ NumLayers >= 2
    /\ NonEmptyLayers(1) = 1..NumLayers
    /\ Get(Out(1).summary, "protocol") = "TCP"

\* descend was invoked once on each analyzer of the chain, in chain order.
DescendCalls(r) == SelectSeq(calls, LAMBDA c : c.m = "descend" /\ c.run = r)

VisitsEachOnce ==
    /\ Len(DescendCalls(1)) = NumLayers
    /\ \A i \in 1..NumLayers : DescendCalls(1)[i].layer = i

\* C2 as stated: N calls, at most N entries, fewer only with an empty layer.
C2_Original ==
    Returned(1) =>
        /\ VisitsEachOnce
        /\ Len(DetailsMap(1)) <= NumLayers
        /\ Len(DetailsMap(1)) < NumLayers => NonEmptyLayers(1) # 1..NumLayers

\* C2: descend is invoked exactly N times, once per analyzer, and the
\* details map has one entry per distinct protocol name among the layers
\* with non-empty details, hence at most N entries.
C2_CallsAndEntries ==
    Returned(1) =>
        /\ VisitsEachOnce
        /\ Len(DetailsMap(1)) <= NumLayers
        /\ Len(DetailsMap(1)) = Cardinality(NamesOf(NonEmptyLayers(1)))

C2_Witness ==
    /\ Returned(1)
    /\ NumLayers = 3
    /\ NonEmptyLayers(1) = {1, 3}
    /\ NameOf(1) # NameOf(3)
    /\ Len(DetailsMap(1)) = 2

\* C3 as stated: of two layers with one name, the deeper one's field dict
\* is the single entry under that name.
C3_Original ==
    Returned(1) =>
        \A i, j \in 1..NumLayers :
            (i < j /\ NameOf(i) = NameOf(j)) =>
                /\ CountKey(DetailsMap(1), NameOf(i)) = 1
                /\ Get(DetailsMap(1), NameOf(i)) = chains[1][j].det

\* C3: every protocol name borne by a layer with non-empty details has
\* exactly one entry, which holds the field dict of the deepest such layer;
\* no other key exists.
C3_DeepestNonEmptyWins ==
    Returned(1) =>
        /\ DictKeys(DetailsMap(1)) = NamesOf(NonEmptyLayers(1))
        /\ \A i \in NonEmptyLayers(1) :
             /\ CountKey(DetailsMap(1), NameOf(i)) = 1
             /\ Get(DetailsMap(1), NameOf(i)) =
                   chains[1][Max({j \in NonEmptyLayers(1) : NameOf(j) = NameOf(i)})].det

\* Two analyzers of different classes with one protocol name, both non-empty.
C3_Witness ==
    /\ Returned(1)
    /\ NumLayers >= 2
    /\ {1, 2} \subseteq NonEmptyLayers(1)
    /\ chains[1][1].cls = IPProtocol
    /\ chains[1][2].cls = IPClass
    /\ NumLayers > 2 => NameOf(3) # NameOf(1)
    /\ Get(DetailsMap(1), NameOf(1)) = chains[1][2].det

LayerOfRef(id) == CHOOSE i \in 1..NumLayers : chains[1][i].det = id

\* C9 as stated: one entry per layer with non-empty details, the entries in
\* the order of the layers their values came from.
C9_Original ==
    Returned(1) =>
        /\ Len(DetailsMap(1)) = Cardinality(NonEmptyLayers(1))
        /\ \A p, q \in DOMAIN DetailsMap(1) :
             p < q => LayerOfRef(DetailsMap(1)[p].v) < LayerOfRef(DetailsMap(1)[q].v)

\* The outermost layer with non-empty details that bears the name.
FirstLayer(name) == Min({i \in NonEmptyLayers(1) : NameOf(i) = name})

\* C9: the details map has one entry per distinct protocol name of the
\* layers with non-empty details, in the order of the outermost such layer
\* of each name.
C9_OrderByFirstOccurrence ==
    Returned(1) =>
        /\ Len(DetailsMap(1)) = Cardinality(NamesOf(NonEmptyLayers(1)))
        /\ \A p, q \in DOMAIN DetailsMap(1) :
             p < q => FirstLayer(DetailsMap(1)[p].k) < FirstLayer(DetailsMap(1)[q].k)

C9_Witness ==
    /\ Returned(1)
    /\ NumLayers = 3
    /\ NonEmptyLayers(1) = {1, 2, 3}
    /\ NameOf(1) # NameOf(2)
    /\ NameOf(2) # NameOf(3)
    /\ NameOf(1) # NameOf(3) =>
          KeySeq(DetailsMap(1)) = <<NameOf(1), NameOf(2), NameOf(3)>>
    /\ NameOf(1) = NameOf(3) =>
          DetailsMap(1) = <<Entry(NameOf(1), chains[1][3].det),
                            Entry(NameOf(2), chains[1][2].det)>>

\* C6 as stated: two packets with one stack give the same detail keys.
C6_Original ==
    (Returned(1) /\ Returned(2)) =>
        DictKeys(Out(1).details) = DictKeys(Out(2).details)

\* C6: two packets with the same stack of analyzer variants, in which the
\* same layers have non-empty details, give details maps with the same keys
\* in the same order.
C6_KeyStability ==
    (Returned(1) /\ Returned(2) /\ NonEmptyLayers(1) = NonEmptyLayers(2)) =>
        KeySeq(Out(1).details) = KeySeq(Out(2).details)

C6_Witness ==
    /\ Returned(1)
    /\ Returned(2)
    /\ NumLayers >= 2
    /\ NonEmptyLayers(1) = NonEmptyLayers(2)
    /\ Cardinality(NonEmptyLayers(1)) >= 2
    /\ KeySeq(Out(1).details) = KeySeq(Out(2).details)
    /\ Out(1).details # Out(2).details

\* C8: two invocations over the same packet return equal summaries and
\* equal details.
C8_Idempotent ==
    (Returned(1) /\ Returned(2)) => Out(1) = Out(2)

C8_Witness ==
    /\ Returned(1)
    /\ Returned(2)
    /\ NumLayers >= 2
    /\ Len(Out(2).summary) >= 2
    /\ Len(Out(2).details) >= 2
    /\ Out(1) = Out(2)

FailingLayers == {i \in 1..NumLayers : chains[1][i].fail # NoFail}

CountCall(c) == Cardinality({i \in DOMAIN calls : calls[i] = c})

CallOf(e) == [run |-> 1, depth |-> e.depth, layer |-> e.layer, m |-> e.m]

\* The failed call was made once and nothing was called after it.
FailedCallIsLast(e) ==
    /\ calls[Len(calls)] = CallOf(e)
    /\ CountCall(CallOf(e)) = 1
    /\ \A i \in DOMAIN calls : calls[i].depth <= e.depth

\* C4: a failure of an analyzer method ends the top-level descend with that
\* failure and no result; the failed call is not repeated and no method of
\* that layer or of a deeper one is called after it.
C4_FailurePropagates ==
    /\ exc # NoExc => FailedCallIsLast(exc)
    /\ (Len(results) = 1 /\ FailingLayers # {}) =>
          LET i == Min(FailingLayers)
              e == [depth |-> i, layer |-> i, m |-> chains[1][i].fail]
          IN  /\ results[1] = [kind |-> "raised", res |-> NoRef, exc |-> e,
                               out |-> NoSnapshot]
              /\ FailedCallIsLast(e)
    /\ (Len(results) = 1 /\ FailingLayers = {}) => Returned(1)

C4_Witness ==
    /\ Len(results) = 1
    /\ results[1].kind = "raised"
    /\ results[1].exc.depth >= 2
    /\ results[1].exc.m = "parse_layer_details"
    /\ Depth = 0

\* C5: a chain that ends is descended to a result; a chain that cycles is
\* descended up to the recursion limit and never gives a result.
C5_Termination ==
    /\ (back = 0) ~> Returned(1)
    /\ (back # 0) ~> (\E i \in DOMAIN calls : calls[i].depth = RecursionLimit)
    /\ [](back # 0 => \A r \in DOMAIN results : results[r].kind # "returned")

\* The recursion is on a layer it has visited before.
C5_Witness ==
    /\ back # 0
    /\ Depth > NumLayers
    /\ Top.self <= back + 1
    /\ results = << >>

====
